---- MODULE Spec2Model ----
(***************************************************************************)
(* A model of plutus: the ledger value objects of plutus/ledger.py         *)
(* (Entry, Transaction, check_entries, net) and the Citi DoubleCash        *)
(* pipeline of plutus/citi.py (account lookup table, row classification,   *)
(* statement).                                                             *)
(*                                                                         *)
(* Conventions.                                                            *)
(*  - A Decimal is an integer number of minor units. Decimal arithmetic    *)
(*    rounds each result to the 28 significant digits of the default       *)
(*    context; Big stands for 10^28 currency units, and the amounts of the *)
(*    model are b * Big + s with s a few minor units (see ctx).            *)
(*  - Python's None is a record of the same shape as the value it stands   *)
(*    for, tagged absent (NoAmount, NoDecimal, NoTable), or the string     *)
(*    "None" where the value is a string (a status).                       *)
(*  - A str is a sequence of symbols. A symbol is a word (or a phrase that *)
(*    the code tests for as a whole) or the line feed; upper- and          *)
(*    lower-case spellings of a word are different symbols related by      *)
(*    lower().                                                             *)
(*  - A raised exception is an outcome string naming the exception.        *)
(*                                                                         *)
(* Specifications: SpecLedger (a Transaction is built and validated),      *)
(* SpecCommodity (CommodityAmount expressions), Spec (one caller loads     *)
(* tables, looks up and classifies rows), SpecStatement (a statement is    *)
(* read and turned into transactions), SpecThreads (threads share _db).    *)
(***************************************************************************)
EXTENDS Integers, Sequences, FiniteSets

VARIABLES
    txn,      \* ledger: the Transaction object under construction
    ctor,     \* ledger: the last Transaction(...) call, its argument and outcome
    chk,      \* ledger: outcome of check_entries() on txn's present entries
    added,    \* ledger: what the last add_entry() call did to txn
    calc,     \* ledger: the last CommodityAmount expression evaluated, and its value
    _db,      \* citi: DoubleCashLedgerAccountLookup._db, the cached table
    out,      \* citi: the call that has just returned to the caller, and its result
    stmt,     \* citi: DoubleCashStatement.transactions
    reader,   \* citi: what the reader of the statement's CSV has seen so far
    gen,      \* citi: the ledger_transactions() generator
    th,       \* citi: each thread's call on the lookup, its position and locals
    hist      \* citi: the stores made to _db so far, and the calls started

vars == <<txn, ctor, chk, added, calc, _db, out, stmt, reader, gen, th, hist>>

ledgerVars == <<txn, ctor, chk, added, calc>>
lookupVars == <<_db, out>>
stmtVars == <<stmt, reader, gen>>
threadVars == <<th, hist>>

(***************************************************************************)
(* Bounds of the model.                                                    *)
(***************************************************************************)
MaxAmt == 1        \* amounts range over -MaxAmt .. MaxAmt
MaxEntries == 3    \* entries attached to one Transaction
MaxRules == 2      \* rules in a lookup table installed by load_csv
MaxRows == 3       \* data rows read into one statement
MaxDate == 2       \* post dates 1 .. MaxDate
MaxThreads == 2    \* threads that call the lookup
MaxCalls == 3      \* calls the threads start in all

(***************************************************************************)
(* Strings.                                                                *)
(***************************************************************************)
LF == "\n"

\* str.lower(), symbol by symbol
lowerSym(s) ==
    CASE s = "BBQ" -> "bbq"
      [] s = "RESTAURANT" -> "restaurant"
      [] s = "GAS" -> "gas"
      [] s = "STATEMENT CREDIT" -> "statement credit"
      [] s = "PAYMENT THANK YOU" -> "payment thank you"
      [] s = "Cleared" -> "cleared"
      [] s = "CLEARED" -> "cleared"
      [] s = "Pending" -> "pending"
      [] OTHER -> s

lower(str) == [i \in 1..Len(str) |-> lowerSym(str[i])]

\* `phrase in str`
contains(str, phrase) == \E i \in 1..Len(str) : str[i] = phrase

(***************************************************************************)
(* plutus/ledger.py: accounts, amounts, entries.                           *)
(***************************************************************************)
CLEARED == "*"
PENDING == "!"

NoAmount == [kind |-> "None", unit |-> "", amount |-> 0]
Money(a, currency) == [kind |-> "Money", unit |-> currency, amount |-> a]
USD(a) == Money(a, "USD")
CommodityAmount(a, commodity) == [kind |-> "Commodity", unit |-> commodity, amount |-> a]

\* The values of the AccountCategory enum.
AccountCategory == {"Assets", "Equity", "Expenses", "Income", "Liabilities"}

\* name.split(":")[0] for the account names of the model
topSegment(name) ==
    CASE name \in {"Assets:Checking"} -> "Assets"
      [] name \in {"Expenses:Dining", "Expenses:Entertainment", "Expenses:Travel",
                   "Expenses:Auto", "Expenses:Points", "Expenses:Unknown"} -> "Expenses"
      [] name \in {"Liabilities:CC:DoubleCash"} -> "Liabilities"
      [] name \in {"Misc:Fuel"} -> "Misc"

\* Account(name): __init__ stores the name and checks nothing. An Account is
\* its name.
Account(name) == name

\* Account.category: the enum value, or the ValueError that
\* AccountCategory(...) raises for a string that is no category.
category(account) ==
    IF topSegment(account) \in AccountCategory THEN topSegment(account)
    ELSE "ValueError"

Entry(account, amount) ==
    [account |-> Account(account), status |-> "None", amount |-> amount]

\* bool(amount): Money is falsy when its amount is zero, a CommodityAmount
\* defines no __bool__ and is always truthy, None is falsy.
truthy(a) ==
    CASE a.kind = "Money" -> a.amount # 0
      [] a.kind = "Commodity" -> TRUE
      [] OTHER -> FALSE

\* 10^28 currency units, written in minor units. The integers between the
\* multiples of Big that the model uses are a few minor units away from one.
Big == 1000

\* The rounding of a Decimal result to the context precision. For an amount
\* b * Big + s with b # 0 the s minor units lie below the 28th significant
\* digit and are rounded away; with b = 0 the amount is kept as it is.
ctx(n) ==
    LET b == (n + Big \div 2) \div Big IN
    IF b # 0 THEN b * Big ELSE n

\* CommodityAmount.__add__: [err, v], v being the new CommodityAmount
__add__(self, other) ==
    IF other.kind # "Commodity" THEN [err |-> "TypeError", v |-> NoAmount]
    ELSE IF self.unit # other.unit THEN [err |-> "ValueError", v |-> NoAmount]
    ELSE [err |-> "ok",
          v |-> CommodityAmount(ctx(self.amount + other.amount), self.unit)]

\* CommodityAmount.__mul__, for an int other: Decimal(other) is exact
__mul__(self, other) ==
    [err |-> "ok", v |-> CommodityAmount(ctx(self.amount * other), self.unit)]

\* CommodityAmount.__rmul__, what k * a calls
__rmul__(self, other) ==
    [err |-> "ok", v |-> CommodityAmount(ctx(self.amount * other), self.unit)]

\* x + y where x is the outcome of an earlier expression: an exception
\* raised there ends the evaluation.
thenAdd(x, y) == IF x.err # "ok" THEN x ELSE __add__(x.v, y)
addThen(x, y) == IF y.err # "ok" THEN y ELSE __add__(x, y.v)

\* a + b for two amounts filed under the same key of net_amounts; of kind
\* "TypeError" when one is a Money and the other a CommodityAmount
\* (CommodityAmount.__add__ raises it, and Money.__add__ ends in
\* Decimal + CommodityAmount, which no operand supports).
amountAdd(a, b) ==
    IF a.kind # b.kind THEN [kind |-> "TypeError", unit |-> a.unit, amount |-> 0]
    ELSE [kind |-> a.kind, unit |-> a.unit, amount |-> ctx(a.amount + b.amount)]

\* One iteration of the loop of Transaction.net. acc.tot is net_amounts as
\* the set of its values: at most one per key, the key being the amount's
\* currency code or commodity symbol.
netStep(acc, e) ==
    IF acc.err # "ok" \/ ~truthy(e.amount) THEN acc
    ELSE LET old == {v \in acc.tot : v.unit = e.amount.unit} IN
         IF old = {} THEN [acc EXCEPT !.tot = @ \cup {e.amount}]
         ELSE LET v == CHOOSE x \in old : TRUE
                  s == amountAdd(v, e.amount) IN
              IF s.kind = "TypeError" THEN [acc EXCEPT !.err = "TypeError"]
              ELSE [acc EXCEPT !.tot = (@ \ {v}) \cup {s}]

RECURSIVE netLoop(_, _)
netLoop(entries, acc) ==
    IF entries = {} THEN acc
    ELSE LET e == CHOOSE x \in entries : TRUE IN
         netLoop(entries \ {e}, netStep(acc, e))

\* Transaction.net: [err |-> "ok", tot |-> the set of net totals], or err
\* "TypeError". Iteration order over the set of entries is arbitrary; it
\* changes neither the totals nor whether the TypeError is raised, since any
\* order of a key's amounts of both types meets a first change of type.
net(entries) == netLoop(entries, [err |-> "ok", tot |-> {}])

\* check_entries with the limit on implied amounts off by one
check_entries_two_implied(entries) ==
    LET missing_count == Cardinality({e \in entries : e.amount.kind = "None"})
        n == net(entries) IN
    IF missing_count = 0 /\ n.err # "ok" THEN n.err
    ELSE IF missing_count = 0 /\ \E v \in n.tot : v.amount # 0
         THEN "ValueError: sum"
    ELSE IF missing_count > 2 THEN "ValueError: implied"
    ELSE "ok"

\* check_entries with the sum tested whether or not an amount is implied
check_entries_always_sum(entries) ==
    LET missing_count == Cardinality({e \in entries : e.amount.kind = "None"})
        n == net(entries) IN
    IF n.err # "ok" THEN n.err
    ELSE IF \E v \in n.tot : v.amount # 0 THEN "ValueError: sum"
    ELSE IF missing_count > 1 THEN "ValueError: implied"
    ELSE "ok"

\* Transaction.check_entries: "ok" or the exception raised.
check_entries(entries) ==
    LET missing_count == Cardinality({e \in entries : e.amount.kind = "None"})
        n == net(entries) IN
    IF missing_count = 0 /\ n.err # "ok" THEN n.err
    ELSE IF missing_count = 0 /\ \E v \in n.tot : v.amount # 0
         THEN "ValueError: sum"
    ELSE IF missing_count > 1 THEN "ValueError: implied"
    ELSE "ok"

\* check_description with the line count compared off by one
check_description_two_lines(value) ==
    LET lines == 1 + Cardinality({i \in 1..Len(value) : value[i] = LF}) IN
    IF lines > 2 THEN "ValueError: description" ELSE "ok"

\* Transaction.check_description
check_description(value) ==
    LET lines == 1 + Cardinality({i \in 1..Len(value) : value[i] = LF}) IN
    IF lines > 1 THEN "ValueError: description" ELSE "ok"

\* Transaction(post_date, description, status): the new object, or the
\* exception check_description raises.
Transaction(post_date, description, status) ==
    IF check_description(description) # "ok"
    THEN [err |-> check_description(description)]
    ELSE [err |-> "ok",
          t |-> [post_date |-> post_date, description |-> description,
                 entries |-> {}, status |-> status]]

\* Entry(account, status=status, amount=amount)
EntryWithStatus(account, status, amount) ==
    [account |-> Account(account), status |-> status, amount |-> amount]

\* An add_entry that keeps one entry per account.
add_entry_per_account(t, entry) ==
    [t EXCEPT !.entries = {x \in @ : x.account # entry.account} \cup {entry}]

\* Transaction.add_entry
add_entry(t, entry) == [t EXCEPT !.entries = @ \cup {entry}]

(***************************************************************************)
(* The ledger specification: a caller builds a Transaction, attaches       *)
(* entries and validates it.                                               *)
(***************************************************************************)
LedgerAccounts == {"Assets:Checking", "Expenses:Dining"}

Amounts == -MaxAmt .. MaxAmt

\* XAU is both an ISO 4217 currency code and a commodity symbol; an amount
\* in it is one unit, none, or one unit owed.
LedgerAmounts ==
    {NoAmount}
    \cup {Money(a, "USD") : a \in Amounts}
    \cup {Money(a, "XAU") : a \in {-1, 0, 1}}
    \cup {CommodityAmount(a, "XAU") : a \in {-1, 0, 1}}

\* The lot and purchase price fields of an Entry stay None throughout.
LedgerEntries ==
    {Entry(acct, amt) : acct \in LedgerAccounts, amt \in LedgerAmounts}
    \cup {EntryWithStatus("Assets:Checking", CLEARED, USD(1))}

LedgerDescriptions == {<<"BBQ">>, <<"BBQ", "RESTAURANT">>, <<"BBQ", LF, "GAS">>, <<LF>>}

NoTxn == [post_date |-> 0, description |-> <<>>, entries |-> {}, status |-> "None"]
NoCtor == [called |-> FALSE, description |-> <<>>, outcome |-> "ok"]
NoCalc == [op |-> "none", a |-> NoAmount, b |-> NoAmount, c |-> NoAmount, k |-> 0,
           left |-> [err |-> "ok", v |-> NoAmount],
           right |-> [err |-> "ok", v |-> NoAmount]]
NoAdded == [called |-> FALSE, present |-> FALSE, grew |-> 0,
            sameEntries |-> TRUE, sameNet |-> TRUE, sameCheck |-> TRUE]

LedgerInit ==
    /\ txn = NoTxn
    /\ ctor = NoCtor
    /\ chk = "none"
    /\ added = NoAdded
    /\ calc = NoCalc

\* t = Transaction(post_date=1, description=d). A failed construction binds
\* no object: the caller keeps what it had.
NewTransaction(d) ==
    LET r == Transaction(1, d, "None") IN
    /\ ctor' = [called |-> TRUE, description |-> d, outcome |-> r.err]
    /\ txn' = IF r.err = "ok" THEN r.t ELSE txn
    /\ chk' = IF r.err = "ok" THEN "none" ELSE chk
    /\ added' = IF r.err = "ok" THEN NoAdded ELSE added
    /\ UNCHANGED <<calc, lookupVars, stmtVars, threadVars>>

\* t.add_entry(e)
AddEntry(e) ==
    /\ ctor.called /\ txn # NoTxn
    /\ Cardinality(txn.entries \cup {e}) <= MaxEntries
    /\ txn' = add_entry(txn, e)
    /\ chk' = "none"
    /\ added' = [called |-> TRUE,
                 present |-> e \in txn.entries,
                 grew |-> Cardinality(txn'.entries) - Cardinality(txn.entries),
                 sameEntries |-> txn'.entries = txn.entries,
                 sameNet |-> net(txn'.entries) = net(txn.entries),
                 sameCheck |-> check_entries(txn'.entries) = check_entries(txn.entries)]
    /\ UNCHANGED <<ctor, calc, lookupVars, stmtVars, threadVars>>

\* t.check_entries()
CheckEntries ==
    /\ ctor.called /\ txn # NoTxn
    /\ chk' = check_entries(txn.entries)
    /\ UNCHANGED <<txn, ctor, added, calc, lookupVars, stmtVars, threadVars>>

LedgerNext ==
    \/ \E d \in LedgerDescriptions : NewTransaction(d)
    \/ \E e \in LedgerEntries : AddEntry(e)
    \/ CheckEntries

(***************************************************************************)
(* plutus/utils.py and plutus/citi.py: configuration, lookup table.        *)
(***************************************************************************)
NoDecimal == [present |-> FALSE, val |-> 0]
Decimal(v) == [present |-> TRUE, val |-> v]

\* bool(d) for an Optional[Decimal]
truthyDec(d) == d.present /\ d.val # 0

\* negate: d * Decimal("-1.0")
negate(d) == ctx(d * (-1))

\* DoubleCashLedgerAccountConfig with no environment override
asset_account == "Assets:Checking"
liability_account == "Liabilities:CC:DoubleCash"
points_account == "Expenses:Points"
unknown_expense_account == "Expenses:Unknown"

NoTable == [loaded |-> FALSE, rules |-> <<>>]
Table(rules) == [loaded |-> TRUE, rules |-> rules]

Rule(pattern, account) == [pattern |-> pattern, account |-> Account(account)]

\* data/citi_doublecash_accounts.csv, the bundled dataset: it resolves
\* "BBQ RESTAURANT" to Expenses:Dining.
Bundled == <<Rule(<<"bbq">>, "Expenses:Dining"), Rule(<<"GAS">>, "Expenses:Auto")>>

\* re.compile(pattern, flags=re.IGNORECASE).match(description) for a pattern
\* free of metacharacters: anchored at the start, not at the end.
match(pattern, description) ==
    /\ Len(pattern) <= Len(description)
    /\ \A i \in 1..Len(pattern) : lowerSym(pattern[i]) = lowerSym(description[i])

\* DoubleCashLedgerAccountLookup._load_csv: the new value of _db
_load_csv(rows) == Table(rows)

\* The db property: [err, table, cache], cache being _db afterwards. With
\* nothing cached the bundled dataset is loaded first; an empty table then
\* fails `assert self._db` (assertions enabled, as the interpreter runs
\* unless started with -O).
db(cache) ==
    LET now == IF ~cache.loaded THEN _load_csv(Bundled) ELSE cache IN
    IF now.rules = <<>>
    THEN [err |-> "AssertionError", table |-> now.rules, cache |-> now]
    ELSE [err |-> "ok", table |-> now.rules, cache |-> now]

\* The loop of lookup over rules i, i+1, ...
RECURSIVE lookupFrom(_, _, _)
lookupFrom(rules, i, description) ==
    IF i > Len(rules) THEN [err |-> "KeyError", account |-> ""]
    ELSE IF match(rules[i].pattern, description)
         THEN [err |-> "ok", account |-> rules[i].account]
    ELSE lookupFrom(rules, i + 1, description)

\* DoubleCashLedgerAccountLookup.lookup: [err, account, cache]
lookup(cache, description) ==
    LET d == db(cache) IN
    IF d.err # "ok" THEN [err |-> d.err, account |-> "", cache |-> d.cache]
    ELSE LET r == lookupFrom(d.table, 1, description) IN
         [err |-> r.err, account |-> r.account, cache |-> d.cache]

(***************************************************************************)
(* plutus/citi.py: one statement row and its classification.               *)
(***************************************************************************)
DoubleCashTransaction(status, post_date, description, debit, credit) ==
    [status |-> status, post_date |-> post_date, description |-> description,
     debit |-> debit, credit |-> credit]

\* A cell of a CSV row: its text is empty, or a numeral.
EmptyCell == [empty |-> TRUE, val |-> 0]
Cell(v) == [empty |-> FALSE, val |-> v]

\* str.strip() of the Status cell: [pad, text] is text with or without
\* surrounding blanks.
strip(cell) == cell.text

\* DoubleCashTransaction.from_statement. A date is the number of its day, and
\* the Date cell a well-formed MM/DD/YYYY text that strptime turns into it.
from_statement(row) ==
    DoubleCashTransaction(
        strip(row.Status),
        row.Date,
        row.Description,
        IF ~row.Debit.empty THEN Decimal(row.Debit.val) ELSE NoDecimal,
        IF ~row.Credit.empty THEN Decimal(row.Credit.val) ELSE NoDecimal)

NoT == [post_date |-> 0, description |-> <<>>, entries |-> {}, status |-> "None"]

\* try: account = self._db[self.description]
\* except KeyError: account = self._config.unknown_expense_account
lookupOrUnknown(cache, description) ==
    LET r == lookup(cache, description) IN
    IF r.err = "KeyError" THEN [r EXCEPT !.err = "ok", !.account = unknown_expense_account]
    ELSE r

\* The tail of ledger_transaction: both entries are attached and validated.
finish(t, cc_entry, other_entry, cache) ==
    LET t2 == add_entry(add_entry(t, cc_entry), other_entry)
        c == check_entries(t2.entries) IN
    IF c # "ok" THEN [err |-> c, t |-> NoT, cache |-> cache]
    ELSE [err |-> "ok", t |-> t2, cache |-> cache]

\* A comparison of the status that does not fold the case.
is_cleared_exact(status) == status = <<"cleared">>

\* is_cleared = self.status.lower() == "cleared"
is_cleared(status) == lower(status) = <<"cleared">>

\* A choice of the branch that looks at the credit first.
branch_credit_first(self) ==
    IF truthyDec(self.credit) THEN "credit"
    ELSE IF truthyDec(self.debit) THEN "debit"
    ELSE "none"

\* if self.debit: ... elif self.credit: ... (and no else)
branch(self) ==
    IF truthyDec(self.debit) THEN "debit"
    ELSE IF truthyDec(self.credit) THEN "credit"
    ELSE "none"

\* DoubleCashTransaction.ledger_transaction: [err, t, cache]
ledger_transaction(self, cache) ==
    LET c == Transaction(self.post_date, self.description,
                         IF is_cleared(self.status) THEN CLEARED ELSE "None") IN
    IF c.err # "ok" THEN [err |-> c.err, t |-> NoT, cache |-> cache]
    ELSE IF branch(self) = "debit" THEN
        LET cc_entry == Entry(liability_account, USD(negate(self.debit.val)))
            r == lookupOrUnknown(cache, self.description) IN
        IF r.err # "ok" THEN [err |-> r.err, t |-> NoT, cache |-> r.cache]
        ELSE finish(c.t, cc_entry, Entry(r.account, USD(self.debit.val)), r.cache)
    ELSE IF branch(self) = "credit" THEN
        LET cc_entry == Entry(liability_account, USD(negate(self.credit.val)))
            r == IF contains(lower(self.description), "statement credit")
                 THEN [err |-> "ok", account |-> points_account, cache |-> cache]
                 ELSE IF contains(lower(self.description), "payment thank you")
                 THEN [err |-> "ok", account |-> asset_account, cache |-> cache]
                 ELSE lookupOrUnknown(cache, self.description) IN
        IF r.err # "ok" THEN [err |-> r.err, t |-> NoT, cache |-> r.cache]
        ELSE finish(c.t, cc_entry, Entry(r.account, USD(self.credit.val)), r.cache)
    ELSE [err |-> "UnboundLocalError", t |-> NoT, cache |-> cache]

(***************************************************************************)
(* plutus/citi.py: the statement.                                          *)
(***************************************************************************)
\* DoubleCashStatement.add_transaction
add_transaction(transactions, transaction) == transactions \cup {transaction}

Orders(S) ==
    {q \in [1..Cardinality(S) -> S] : \A i, j \in 1..Cardinality(S) : i # j => q[i] # q[j]}

\* list(self.transactions): the rows in the set's own order
sorted_not(S) == Orders(S)

\* sorted(self.transactions, key=lambda t: t.post_date): every list the call
\* can return. The sort is stable, over a set whose iteration order is
\* arbitrary, so rows of equal post_date come in any order.
sorted(S) ==
    {q \in Orders(S) : \A i, j \in 1..Cardinality(S) :
        i < j => q[i].post_date <= q[j].post_date}

(***************************************************************************)
(* Initial values of the variables a specification does not use.           *)
(***************************************************************************)
NoRow == DoubleCashTransaction(<<>>, 0, <<>>, NoDecimal, NoDecimal)

Idle == [op |-> "idle", description |-> <<>>, row |-> NoRow, pre |-> NoTable,
         err |-> "ok", account |-> "", t |-> NoT]

NoReader == [n |-> 0, last |-> 0, unsorted |-> FALSE]
NoGen == [pc |-> "none", queue |-> <<>>, emitted |-> <<>>, err |-> "ok"]

LedgerIdle ==
    txn = NoTxn /\ ctor = NoCtor /\ chk = "none" /\ added = NoAdded /\ calc = NoCalc
LookupIdle == out = Idle
StmtIdle == stmt = {} /\ reader = NoReader /\ gen = NoGen

Threads == 1 .. MaxThreads

\* A thread that is in no call.
NoThread == [pc |-> "idle", description |-> <<>>, rows |-> <<>>, rest |-> <<>>,
             acc |-> <<>>, epoch |-> 0, table |-> <<>>, err |-> "ok",
             account |-> "", wrote |-> FALSE]
NoHist == [reloads |-> <<>>, lazy |-> <<>>, owner |-> "none", calls |-> 0]

ThreadIdle == th = [i \in Threads |-> NoThread] /\ hist = NoHist

(***************************************************************************)
(* The classification specification: a caller installs lookup tables,      *)
(* looks descriptions up and classifies rows; each call returns before the *)
(* next is made.                                                           *)
(***************************************************************************)
Descriptions ==
    {<<>>,
     <<"BBQ", "RESTAURANT">>,
     <<"bbq">>,
     <<"RESTAURANT", "BBQ">>,
     <<"GAS">>,
     <<"PAYMENT THANK YOU">>,
     <<"BBQ", "payment thank you">>,
     <<"STATEMENT CREDIT">>,
     <<"BBQ", "statement credit">>,
     <<"payment thank you", "STATEMENT CREDIT">>,
     <<"BBQ", LF, "GAS">>}

Statuses == {<<"Cleared">>, <<"CLEARED">>, <<"cleared">>, <<"Pending">>, <<>>}

\* Decimal(text) is exact: an amount cell of more than 28 digits is read in
\* full.
Decimals == {NoDecimal} \cup {Decimal(v) : v \in Amounts \cup {Big + 1}}

Dates == 1 .. MaxDate

Rows ==
    {DoubleCashTransaction(s, 1, d, debit, credit) :
        s \in Statuses, d \in Descriptions, debit \in Decimals, credit \in Decimals}

Rules ==
    {Rule(<<"bbq">>, "Expenses:Dining"),
     Rule(<<"BBQ", "RESTAURANT">>, "Expenses:Entertainment"),
     Rule(<<"restaurant">>, "Expenses:Travel"),
     Rule(<<"GAS">>, "Expenses:Auto"),
     Rule(<<"gas">>, "Misc:Fuel")}

RECURSIVE SeqsUpTo(_, _)
SeqsUpTo(S, n) ==
    IF n = 0 THEN {<<>>}
    ELSE LET shorter == SeqsUpTo(S, n - 1) IN
         shorter \cup {Append(q, x) : q \in {p \in shorter : Len(p) = n - 1}, x \in S}

\* The tables a CSV of at most MaxRules rules loads; a CSV of the header
\* line alone loads the empty table.
Tables == SeqsUpTo(Rules, MaxRules)

Init ==
    /\ _db = NoTable
    /\ out = Idle
    /\ LedgerIdle
    /\ StmtIdle
    /\ ThreadIdle

\* DoubleCashLedgerAccountLookup.load_csv(csvfile)
LoadCsv(rows) ==
    /\ out.op = "idle"
    /\ _db' = _load_csv(rows)
    /\ UNCHANGED <<out, ledgerVars, stmtVars, threadVars>>

\* DoubleCashLedgerAccountLookup().lookup(description)
Lookup(description) ==
    LET r == lookup(_db, description) IN
    /\ out.op = "idle"
    /\ _db' = r.cache
    /\ out' = [Idle EXCEPT !.op = "lookup", !.description = description,
                           !.pre = _db, !.err = r.err, !.account = r.account]
    /\ UNCHANGED <<ledgerVars, stmtVars, threadVars>>

\* row.ledger_transaction()
Classify(row) ==
    LET r == ledger_transaction(row, _db) IN
    /\ out.op = "idle"
    /\ _db' = r.cache
    /\ out' = [Idle EXCEPT !.op = "classify", !.description = row.description,
                           !.row = row, !.pre = _db, !.err = r.err, !.t = r.t]
    /\ UNCHANGED <<ledgerVars, stmtVars, threadVars>>

\* The caller has taken the result (or caught the exception) and goes on.
Return ==
    /\ out.op # "idle"
    /\ out' = Idle
    /\ UNCHANGED <<_db, ledgerVars, stmtVars, threadVars>>

Next ==
    \/ \E rows \in Tables : LoadCsv(rows)
    \/ \E d \in Descriptions : Lookup(d)
    \/ \E row \in Rows : Classify(row)
    \/ Return

Spec == Init /\ [][Next]_vars

(***************************************************************************)
(* The ledger specification.                                               *)
(***************************************************************************)
SpecLedgerInit == LedgerInit /\ _db = NoTable /\ LookupIdle /\ StmtIdle /\ ThreadIdle

SpecLedger == SpecLedgerInit /\ [][LedgerNext]_vars

(***************************************************************************)
(* The commodity specification: a caller evaluates expressions over        *)
(* CommodityAmounts, one at a time.                                        *)
(***************************************************************************)
Commodities == {"XAU", "AAPL"}

CommodityAmounts ==
    {CommodityAmount(a, s) : a \in Amounts \cup {Big, -Big}, s \in Commodities}

\* What a CommodityAmount can meet on the right of +: a Money, None.
Others == {USD(1), Money(1, "XAU"), NoAmount}

Scalars == -1 .. MaxAmt + 1

\* a + b and b + a
EvalAdd(a, b) ==
    /\ calc' = [NoCalc EXCEPT !.op = "add", !.a = a, !.b = b,
                              !.left = __add__(a, b), !.right = __add__(b, a)]
    /\ UNCHANGED <<txn, ctor, chk, added, lookupVars, stmtVars, threadVars>>

\* (a + b) + c and a + (b + c)
EvalAddThree(a, b, c) ==
    /\ calc' = [NoCalc EXCEPT !.op = "add3", !.a = a, !.b = b, !.c = c,
                              !.left = thenAdd(__add__(a, b), c),
                              !.right = addThen(a, __add__(b, c))]
    /\ UNCHANGED <<txn, ctor, chk, added, lookupVars, stmtVars, threadVars>>

\* k * a and a * k
EvalMul(a, k) ==
    /\ calc' = [NoCalc EXCEPT !.op = "mul", !.a = a, !.k = k,
                              !.left = __rmul__(a, k), !.right = __mul__(a, k)]
    /\ UNCHANGED <<txn, ctor, chk, added, lookupVars, stmtVars, threadVars>>

\* a + a and a * 2
EvalDouble(a) ==
    /\ calc' = [NoCalc EXCEPT !.op = "double", !.a = a, !.k = 2,
                              !.left = __add__(a, a), !.right = __mul__(a, 2)]
    /\ UNCHANGED <<txn, ctor, chk, added, lookupVars, stmtVars, threadVars>>

\* a + o for an o that is no CommodityAmount
EvalAddOther(a, o) ==
    /\ calc' = [NoCalc EXCEPT !.op = "addOther", !.a = a, !.b = o,
                              !.left = __add__(a, o), !.right = __add__(a, o)]
    /\ UNCHANGED <<txn, ctor, chk, added, lookupVars, stmtVars, threadVars>>

CommodityNext ==
    \/ \E a, b \in CommodityAmounts : EvalAdd(a, b)
    \/ \E a, b, c \in CommodityAmounts : EvalAddThree(a, b, c)
    \/ \E a \in CommodityAmounts, k \in Scalars : EvalMul(a, k)
    \/ \E a \in CommodityAmounts : EvalDouble(a)
    \/ \E a \in CommodityAmounts, o \in Others : EvalAddOther(a, o)

SpecCommodity == SpecLedgerInit /\ [][CommodityNext]_vars

(***************************************************************************)
(* The statement specification: a statement is read from a CSV row by row, *)
(* then ledger_transactions() is iterated to its end.                      *)
(***************************************************************************)
StatusCells == {[pad |-> FALSE, text |-> <<"Cleared">>], [pad |-> TRUE, text |-> <<"Cleared">>]}

CsvRow(status, date, description, debit, credit) ==
    [Status |-> status, Date |-> date, Description |-> description,
     Debit |-> debit, Credit |-> credit]

CsvRows ==
    {CsvRow(s, d, <<"BBQ", "RESTAURANT">>, Cell(1), EmptyCell) : s \in StatusCells, d \in Dates}
    \cup {CsvRow(s, d, <<"PAYMENT THANK YOU">>, EmptyCell, Cell(-1)) : s \in StatusCells, d \in Dates}
    \cup {CsvRow(s, d, <<"GAS">>, EmptyCell, EmptyCell) : s \in StatusCells, d \in Dates}
    \cup {CsvRow(s, d, <<"GAS">>, Cell(0), EmptyCell) : s \in StatusCells, d \in Dates}

StmtTables == {<<>>, <<Rule(<<"GAS">>, "Expenses:Auto")>>}

\* One iteration of the loop of _read_doublecash_transactions
ReadRow(d) ==
    /\ gen.pc = "none"
    /\ reader.n < MaxRows
    /\ stmt' = add_transaction(stmt, from_statement(d))
    /\ reader' = [n |-> reader.n + 1, last |-> d.Date,
                  unsorted |-> reader.unsorted \/ d.Date < reader.last]
    /\ UNCHANGED <<gen, _db, out, ledgerVars, threadVars>>

\* A generator that passes over a row whose classification raises.
genStep_skip(q) ==
    IF q = <<>>
    THEN /\ gen' = [gen EXCEPT !.pc = "done", !.queue = <<>>]
         /\ UNCHANGED _db
    ELSE LET r == ledger_transaction(Head(q), _db) IN
         /\ _db' = r.cache
         /\ gen' = IF r.err # "ok"
                   THEN [gen EXCEPT !.pc = "running", !.queue = Tail(q)]
                   ELSE [gen EXCEPT !.pc = "running", !.queue = Tail(q),
                                    !.emitted = Append(@, r.t)]

\* The generator's body from the row at the head of queue q on: the row is
\* classified and its transaction yielded; an exception ends the generator.
genStep(q) ==
    IF q = <<>>
    THEN /\ gen' = [gen EXCEPT !.pc = "done", !.queue = <<>>]
         /\ UNCHANGED _db
    ELSE LET r == ledger_transaction(Head(q), _db) IN
         /\ _db' = r.cache
         /\ gen' = IF r.err # "ok"
                   THEN [gen EXCEPT !.pc = "error", !.queue = <<>>, !.err = r.err]
                   ELSE [gen EXCEPT !.pc = "running", !.queue = Tail(q),
                                    !.emitted = Append(@, r.t)]

\* The first next() on statement.ledger_transactions(): the rows are sorted
GenFirst ==
    /\ gen.pc = "none"
    /\ \E q \in sorted(stmt) : genStep(q)
    /\ UNCHANGED <<stmt, reader, out, ledgerVars, threadVars>>

\* Every later next()
GenNext ==
    /\ gen.pc = "running"
    /\ genStep(gen.queue)
    /\ UNCHANGED <<stmt, reader, out, ledgerVars, threadVars>>

StmtLoadCsv(rows) ==
    /\ gen.pc = "none"
    /\ reader.n = 0
    /\ _db' = _load_csv(rows)
    /\ UNCHANGED <<stmt, reader, gen, out, ledgerVars, threadVars>>

SpecStatementInit ==
    StmtIdle /\ _db = NoTable /\ LookupIdle /\ LedgerIdle /\ ThreadIdle

SpecStatementNext ==
    \/ \E d \in CsvRows : ReadRow(d)
    \/ \E rows \in StmtTables : StmtLoadCsv(rows)
    \/ GenFirst
    \/ GenNext

SpecStatement == SpecStatementInit /\ [][SpecStatementNext]_vars

(***************************************************************************)
(* The threads specification: threads of one process call lookup() and     *)
(* load_csv() on the class-level _db with no lock between them. A step is  *)
(* one read or one store of _db together with the thread-local work that   *)
(* follows it.                                                             *)
(***************************************************************************)
\* A pattern that re.compile rejects.
BadPattern == <<"(">>

ThreadDescriptions == {<<"BBQ", "RESTAURANT">>, <<"GAS">>}

\* The rows of the CSVs that load_csv is given; the second has a row whose
\* pattern does not compile.
ReloadRows ==
    {<<Rule(<<"BBQ", "RESTAURANT">>, "Expenses:Entertainment")>>,
     <<Rule(<<"GAS">>, "Expenses:Travel"), Rule(BadPattern, "Expenses:Auto")>>,
     <<Rule(<<"restaurant">>, "Expenses:Travel"), Rule(<<"bbq">>, "Expenses:Dining")>>}

\* lookup(description) is called: self.db is about to be evaluated.
StartLookup(i, d) ==
    /\ th[i].pc = "idle"
    /\ hist.calls < MaxCalls
    /\ th' = [th EXCEPT ![i] = [NoThread EXCEPT !.pc = "check", !.description = d,
                                                !.epoch = Len(hist.reloads)]]
    /\ hist' = [hist EXCEPT !.calls = @ + 1]
    /\ UNCHANGED <<_db, out, ledgerVars, stmtVars>>

\* load_csv(csvfile) is called: the generator of _load_csv is at its start.
StartReload(i, rows) ==
    /\ th[i].pc = "idle"
    /\ hist.calls < MaxCalls
    /\ th' = [th EXCEPT ![i] = [NoThread EXCEPT !.pc = "build", !.rows = rows,
                                                !.rest = rows]]
    /\ hist' = [hist EXCEPT !.calls = @ + 1]
    /\ UNCHANGED <<_db, out, ledgerVars, stmtVars>>

\* db: `if self._db is None:`; when it is, the bundled CSV is read and
\* parsed into a tuple (thread-local work up to the store in _load_csv).
DbCheck(i) ==
    /\ th[i].pc = "check"
    /\ th' = [th EXCEPT ![i].pc = IF ~_db.loaded THEN "lazy" ELSE "assert",
                        ![i].acc = IF ~_db.loaded THEN Bundled ELSE <<>>]
    /\ UNCHANGED <<_db, hist, out, ledgerVars, stmtVars>>

\* _load_csv, called from db: `cls._db = tuple(...)` of the bundled rows
LazyStore(i) ==
    /\ th[i].pc = "lazy"
    /\ _db' = _load_csv(th[i].acc)
    /\ hist' = [hist EXCEPT !.lazy = Append(@, [pre |-> _db, owner |-> hist.owner]),
                            !.owner = "lazy"]
    /\ th' = [th EXCEPT ![i].pc = "assert", ![i].wrote = TRUE]
    /\ UNCHANGED <<out, ledgerVars, stmtVars>>

\* db: `assert self._db`
DbAssert(i) ==
    /\ th[i].pc = "assert"
    /\ th' = [th EXCEPT ![i].pc = IF _db.rules = <<>> THEN "done" ELSE "return",
                        ![i].err = IF _db.rules = <<>> THEN "AssertionError" ELSE "ok"]
    /\ UNCHANGED <<_db, hist, out, ledgerVars, stmtVars>>

\* db: `return self._db`; the for loop of lookup holds this tuple from now on
DbReturn(i) ==
    /\ th[i].pc = "return"
    /\ th' = [th EXCEPT ![i].pc = "scan", ![i].table = _db.rules]
    /\ UNCHANGED <<_db, hist, out, ledgerVars, stmtVars>>

\* lookup: the loop over the tuple that db returned
Scan(i) ==
    LET r == lookupFrom(th[i].table, 1, th[i].description) IN
    /\ th[i].pc = "scan"
    /\ th' = [th EXCEPT ![i].pc = "done", ![i].err = r.err, ![i].account = r.account]
    /\ UNCHANGED <<_db, hist, out, ledgerVars, stmtVars>>

\* _load_csv: the generator inside tuple(...) yields the next row's pair, or
\* re.compile raises and the call ends with nothing assigned.
BuildRow(i) ==
    /\ th[i].pc = "build"
    /\ th' = [th EXCEPT ![i] =
                 IF th[i].rest = <<>> THEN [@ EXCEPT !.pc = "store"]
                 ELSE IF Head(th[i].rest).pattern = BadPattern
                 THEN [@ EXCEPT !.pc = "failed", !.err = "re.error"]
                 ELSE [@ EXCEPT !.acc = Append(@, Head(th[i].rest)),
                                !.rest = Tail(@)]]
    /\ UNCHANGED <<_db, hist, out, ledgerVars, stmtVars>>

\* _load_csv, called from load_csv: `cls._db = tuple(...)`
ReloadStore(i) ==
    /\ th[i].pc = "store"
    /\ _db' = _load_csv(th[i].acc)
    /\ hist' = [hist EXCEPT !.reloads = Append(@, th[i].acc), !.owner = "reload"]
    /\ th' = [th EXCEPT ![i].pc = "done", ![i].wrote = TRUE]
    /\ UNCHANGED <<out, ledgerVars, stmtVars>>

\* The call has returned or raised; the thread is free for another call.
Finish(i) ==
    /\ th[i].pc \in {"done", "failed"}
    /\ hist.calls < MaxCalls
    /\ th' = [th EXCEPT ![i] = NoThread]
    /\ UNCHANGED <<_db, hist, out, ledgerVars, stmtVars>>

SpecThreadsInit == ThreadIdle /\ _db = NoTable /\ LookupIdle /\ LedgerIdle /\ StmtIdle

SpecThreadsNext ==
    \/ \E i \in Threads, d \in ThreadDescriptions : StartLookup(i, d)
    \/ \E i \in Threads, rows \in ReloadRows : StartReload(i, rows)
    \/ \E i \in Threads : DbCheck(i)
    \/ \E i \in Threads : LazyStore(i)
    \/ \E i \in Threads : DbAssert(i)
    \/ \E i \in Threads : DbReturn(i)
    \/ \E i \in Threads : Scan(i)
    \/ \E i \in Threads : BuildRow(i)
    \/ \E i \in Threads : ReloadStore(i)
    \/ \E i \in Threads : Finish(i)

SpecThreads == SpecThreadsInit /\ [][SpecThreadsNext]_vars

(***************************************************************************)
(* Properties of Transaction (checked under SpecLedger).                   *)
(***************************************************************************)
RECURSIVE SumAmounts(_)
SumAmounts(entries) ==
    IF entries = {} THEN 0
    ELSE LET e == CHOOSE x \in entries : TRUE IN
         e.amount.amount + SumAmounts(entries \ {e})

Implied(entries) == {e \in entries : e.amount.kind = "None"}

\* The net of the Money entries of one currency, or of the CommodityAmount
\* entries of one commodity.
GroupNet(entries, kind, unit) ==
    SumAmounts({e \in entries : e.amount.kind = kind /\ e.amount.unit = unit})

SomeGroupNonzero(entries) ==
    \E e \in entries : GroupNet(entries, e.amount.kind, e.amount.unit) # 0

Checked == chk # "none"

\* C1: when every entry has an amount, check_entries fails (with the
\* imbalance error; the formula accepts any error) if and only if the
\* amounts of some currency (Money) or of some commodity (CommodityAmount)
\* do not sum to zero, and it returns without error when every such group
\* sums to zero.
C1_ImbalanceIffGroupNonzero ==
    (Checked /\ Implied(txn.entries) = {}) =>
        ((chk # "ok") <=> SomeGroupNonzero(txn.entries))

\* Two included amounts share a key of net_amounts without sharing a type.
SharedKey(entries) ==
    \E e1, e2 \in entries :
        /\ truthy(e1.amount) /\ truthy(e2.amount)
        /\ e1.amount.unit = e2.amount.unit /\ e1.amount.kind # e2.amount.kind

\* C1 does hold, with the imbalance error, of every transaction in which no
\* currency code is also the commodity symbol of another entry.
C1_HoldsWithoutSharedKey ==
    (Checked /\ Implied(txn.entries) = {} /\ ~SharedKey(txn.entries)) =>
        /\ (chk = "ValueError: sum") <=> SomeGroupNonzero(txn.entries)
        /\ ~SomeGroupNonzero(txn.entries) => chk = "ok"

\* C2: with two or more entries lacking an amount, check_entries fails
\* (with the error for implied amounts), whatever the other amounts are.
C2_TwoImpliedFail ==
    (Checked /\ Cardinality(Implied(txn.entries)) >= 2) => chk = "ValueError: implied"

\* Two implied entries beside an unbalanced amount have been rejected.
C2_Witness ==
    /\ chk = "ValueError: implied"
    /\ Cardinality(Implied(txn.entries)) = 2
    /\ SomeGroupNonzero(txn.entries \ Implied(txn.entries))

\* C3: with exactly one entry lacking an amount, check_entries raises
\* nothing, whatever the other amounts sum to.
C3_OneImpliedAccepted ==
    (Checked /\ Cardinality(Implied(txn.entries)) = 1) => chk = "ok"

\* One implied entry beside nonzero sums in two units has been accepted.
C3_Witness ==
    /\ chk = "ok"
    /\ Cardinality(Implied(txn.entries)) = 1
    /\ GroupNet(txn.entries, "Money", "USD") # 0
    /\ GroupNet(txn.entries, "Commodity", "XAU") # 0

HasLineBreak(description) == \E i \in 1..Len(description) : description[i] = LF

\* C10: Transaction(...) fails exactly when the description holds a line
\* break, and no Transaction object has a description with a line break.
C10_OneLineDescription ==
    /\ ctor.called => ((ctor.outcome # "ok") <=> HasLineBreak(ctor.description))
    /\ ~HasLineBreak(txn.description)

\* A construction with a line break has failed, after one without had
\* succeeded and received an entry.
C10_Witness ==
    /\ ctor.called /\ ctor.outcome # "ok" /\ HasLineBreak(ctor.description)
    /\ txn # NoTxn /\ txn.description = <<"BBQ", "RESTAURANT">> /\ txn.entries # {}

(***************************************************************************)
(* Properties of lookup and classification (checked under Spec).           *)
(***************************************************************************)
\* The description begins with the pattern, letter case ignored.
StartsWith(description, pattern) ==
    /\ Len(pattern) <= Len(description)
    /\ lower(SubSeq(description, 1, Len(pattern))) = lower(pattern)

\* The description holds the phrase, letter case ignored.
HasPhrase(description, phrase) ==
    \E i \in 1..Len(description) : lowerSym(description[i]) = phrase

\* The table the call that has returned had to resolve against: the table
\* cached when it was made, or the bundled one when none was.
TableUsed == IF out.pre.loaded THEN out.pre.rules ELSE Bundled

Matching(table, description) ==
    {i \in 1..Len(table) : StartsWith(description, table[i].pattern)}

Least(S) == CHOOSE i \in S : \A j \in S : i <= j

\* The account of the earliest matching rule, or the unknown-expense account.
Resolved(table, description) ==
    IF Matching(table, description) = {} THEN unknown_expense_account
    ELSE table[Least(Matching(table, description))].account

\* The amount has at most 28 significant digits, and so has every sum and
\* product the model forms of such amounts.
Exact(n) == ctx(n) = n /\ -Big < 2 * n /\ 2 * n < Big

ExactRow == Exact(out.row.debit.val) /\ Exact(out.row.credit.val)

\* A row with a one-line description, and amounts that the Decimal context
\* does not round, has been classified.
Classified ==
    out.op = "classify" /\ ~HasLineBreak(out.row.description) /\ ExactRow

TwoEntries(account, amount) ==
    {Entry(liability_account, USD(0 - amount)), Entry(account, USD(amount))}

\* C4: classifying a row with a debit d > 0 (and a one-line description, as
\* every Transaction has) returns a transaction whose entries are exactly
\* (liability account, -d) and (counterparty, +d), the counterparty being
\* the lookup's account for the description, or the unknown-expense account
\* when no rule matches.
C4_DebitRow ==
    (Classified /\ out.row.debit.present /\ out.row.debit.val > 0) =>
        /\ out.err = "ok"
        /\ out.t.entries =
             TwoEntries(Resolved(TableUsed, out.row.description), out.row.debit.val)

CreditCounterparty(table, description) ==
    IF HasPhrase(description, "statement credit") THEN points_account
    ELSE IF HasPhrase(description, "payment thank you") THEN asset_account
    ELSE Resolved(table, description)

\* C5: classifying a row with no debit and a credit c (nonzero, with a
\* one-line description) returns the entries (liability account, -c) and
\* (counterparty, +c); the counterparty is the points account when the
\* description holds "statement credit", else the asset account when it
\* holds "payment thank you", else the lookup's account or the
\* unknown-expense account; and with either phrase the lookup table is not
\* consulted (nothing is loaded by the call).
C5_CreditRow ==
    (Classified /\ ~out.row.debit.present
        /\ out.row.credit.present /\ out.row.credit.val # 0) =>
        /\ out.err = "ok"
        /\ out.t.entries =
             TwoEntries(CreditCounterparty(TableUsed, out.row.description),
                        out.row.credit.val)
        /\ (HasPhrase(out.row.description, "statement credit")
              \/ HasPhrase(out.row.description, "payment thank you"))
           => _db = out.pre

\* C6: lookup returns the account of the earliest rule whose pattern the
\* description begins with (letter case ignored), and raises KeyError
\* exactly when no rule matches.
C6_FirstMatchWins ==
    out.op = "lookup" =>
        LET m == Matching(TableUsed, out.description) IN
        /\ m # {} => (out.err = "ok" /\ out.account = TableUsed[Least(m)].account)
        /\ (m = {}) <=> (out.err = "KeyError")

\* C7: with any cached table, the bundled one or one a reload installed,
\* of any number of rules, classifying a debit row, or a credit row holding
\* neither phrase, whose description no rule matches raises nothing and
\* books the amount to the unknown-expense account.
C7_LookupMissNotSurfaced ==
    LET row == out.row
        isDebit == truthyDec(row.debit) /\ ~row.credit.present
        isCredit == ~row.debit.present /\ truthyDec(row.credit)
                      /\ ~HasPhrase(row.description, "statement credit")
                      /\ ~HasPhrase(row.description, "payment thank you") IN
    (Classified /\ (isDebit \/ isCredit)
        /\ Matching(TableUsed, row.description) = {}) =>
        /\ out.err = "ok"
        /\ out.t.entries =
             TwoEntries(unknown_expense_account,
                        IF isDebit THEN row.debit.val ELSE row.credit.val)

\* The call that has returned met a cached table of at least one rule.
HasRules == TableUsed # <<>>

\* C4 to C7 do hold of every call that meets a table of at least one rule.
C4_HoldsWithRules == HasRules => C4_DebitRow
C5_HoldsWithRules == HasRules => C5_CreditRow
C6_HoldsWithRules == HasRules => C6_FirstMatchWins
C7_HoldsWithRules == HasRules => C7_LookupMissNotSurfaced

(***************************************************************************)
(* Properties of the statement (checked under SpecStatement).              *)
(***************************************************************************)
\* A one-line description and exactly one amount, which is not zero.
WellFormed(row) ==
    /\ ~HasLineBreak(row.description)
    /\ \/ truthyDec(row.debit) /\ ~row.credit.present
       \/ truthyDec(row.credit) /\ ~row.debit.present

\* C8: a statement read from N well-formed data rows, rows that repeat
\* included, yields exactly N ledger transactions.
C8_NRowsNTransactions ==
    (gen.pc = "done" /\ \A row \in stmt : WellFormed(row)) =>
        Len(gen.emitted) = reader.n

\* C9: of any two transactions ledger_transactions has emitted, the one
\* emitted earlier has the lesser or equal post_date.
C9_NonDecreasingPostDate ==
    \A i, j \in 1..Len(gen.emitted) :
        i < j => gen.emitted[i].post_date <= gen.emitted[j].post_date

\* Rows read in an order that is not ascending have all been emitted, with
\* different dates.
C9_Witness ==
    /\ reader.unsorted
    /\ gen.pc = "done"
    /\ Len(gen.emitted) >= 2
    /\ gen.emitted[1].post_date < gen.emitted[Len(gen.emitted)].post_date

C11_WitnessDiffers ==
    /\ added.called /\ ~added.present /\ added.grew = 1
    /\ \E x, y \in txn.entries :
          x # y /\ x.account = y.account /\ x.status = y.status

(***************************************************************************)
(* Claims about the status of a classified row (Spec).                     *)
(***************************************************************************)
\* The status string is the word "cleared" in some spelling of its case.
EqualsClearedIgnoringCase(status) ==
    Len(status) = 1 /\ status[1] \in {"cleared", "Cleared", "CLEARED"}

\* C12: the transaction returned by classify has status Cleared exactly
\* when the row's status string equals "cleared" ignoring letter case; for
\* every other status string the transaction has no status, and neither
\* entry carries an entry-level status.
C12_StatusClearedIffCleared ==
    (out.op = "classify" /\ out.err = "ok") =>
        /\ out.t.status = (IF EqualsClearedIgnoringCase(out.row.status)
                           THEN CLEARED ELSE "None")
        /\ \A x \in out.t.entries : x.status = "None"

\* A row whose status is spelled CLEARED was classified as Cleared.
C12_Witness ==
    /\ out.op = "classify" /\ out.err = "ok"
    /\ out.row.status = <<"CLEARED">>
    /\ out.t.status = CLEARED
    /\ Cardinality(out.t.entries) = 2

(***************************************************************************)
(* Claims about account categories (Spec).                                 *)
(***************************************************************************)
\* C15: an account name whose top-level segment is not one of Assets,
\* Equity, Expenses, Income, Liabilities is rejected when the Account is
\* constructed, so no Account with an unrecognized category exists: not in
\* a loaded lookup table, not in the account configuration and not in a
\* transaction returned by classify.
C15_NoUnrecognizedCategory ==
    /\ \A i \in 1..Len(_db.rules) : category(_db.rules[i].account) \in AccountCategory
    /\ \A a \in {asset_account, liability_account, points_account,
                  unknown_expense_account} : category(a) \in AccountCategory
    /\ (out.op = "classify" /\ out.err = "ok") =>
          \A x \in out.t.entries : category(x.account) \in AccountCategory

\* A transaction returned by classify posts to an account whose category
\* is not recognized.
C15_UnrecognizedInTransaction ==
    /\ out.op = "classify" /\ out.err = "ok"
    /\ \E x \in out.t.entries : category(x.account) = "ValueError"

(***************************************************************************)
(* Claims about CommodityAmount arithmetic (SpecCommodity).                *)
(***************************************************************************)
SameSymbol(S) == \A x, y \in S : x.unit = y.unit

\* C16: for CommodityAmounts a, b, c of one commodity symbol and an integer
\* k: a + b = b + a, (a + b) + c = a + (b + c), k * a = a * k and
\* a + a = a * 2, each side yielding a value; adding CommodityAmounts of
\* different symbols raises ValueError and adding a non-CommodityAmount
\* raises TypeError, with no result value.
C16_CommodityAlgebra ==
    /\ (calc.op = "add" /\ SameSymbol({calc.a, calc.b})) =>
          calc.left = calc.right /\ calc.left.err = "ok"
    /\ (calc.op = "add3" /\ SameSymbol({calc.a, calc.b, calc.c})) =>
          calc.left = calc.right /\ calc.left.err = "ok"
    /\ calc.op \in {"mul", "double"} =>
          calc.left = calc.right /\ calc.left.err = "ok"
    /\ (calc.op = "add" /\ ~SameSymbol({calc.a, calc.b})) =>
          /\ calc.left = [err |-> "ValueError", v |-> NoAmount]
          /\ calc.right = [err |-> "ValueError", v |-> NoAmount]
    /\ calc.op = "addOther" => calc.left = [err |-> "TypeError", v |-> NoAmount]

\* The relations of C16 hold among amounts that the context does not round.
C16_HoldsWithinPrecision ==
    (\A x \in {calc.a, calc.b, calc.c} : Exact(x.amount)) => C16_CommodityAlgebra

\* The two groupings of a sum of three amounts of one symbol gave different
\* values.
C16_GroupingsDiffer ==
    /\ calc.op = "add3" /\ SameSymbol({calc.a, calc.b, calc.c})
    /\ calc.left.err = "ok" /\ calc.right.err = "ok"
    /\ calc.left.v # calc.right.v

(***************************************************************************)
(* Claims about the balance of a classified row (Spec).                    *)
(***************************************************************************)
\* C17: every transaction that classify returns is balanced by
\* construction: it holds exactly two distinct entries, both with a USD
\* amount, the two amounts are exact negatives of each other, and
\* check_entries passes on it; and for a row with a nonzero debit or
\* credit, whatever the description and the lookup table, classify never
\* fails in the validation of the entries.
C17_BalancedByConstruction ==
    out.op = "classify" =>
        /\ out.err = "ok" =>
              /\ Cardinality(out.t.entries) = 2
              /\ \A x \in out.t.entries :
                    x.amount.kind = "Money" /\ x.amount.unit = "USD"
              /\ \E x, y \in out.t.entries :
                    x # y /\ x.amount.amount + y.amount.amount = 0
                          /\ x.amount.amount # 0
              /\ check_entries(out.t.entries) = "ok"
        /\ (truthyDec(out.row.debit) \/ truthyDec(out.row.credit)) =>
              out.err \notin {"ValueError: sum", "ValueError: implied", "TypeError"}

\* C17 holds for the rows whose amounts the context does not round.
C17_HoldsWithinPrecision ==
    ExactRow => C17_BalancedByConstruction

\* The validation of the entries failed inside classify for a row with a
\* debit and a one-line description, against a table with rules.
C17_ValidationFailed ==
    /\ out.op = "classify" /\ out.err = "ValueError: sum"
    /\ truthyDec(out.row.debit)
    /\ out.pre.loaded /\ out.pre.rules # <<>>

(***************************************************************************)
(* Claims about a row with both amounts (Spec).                            *)
(***************************************************************************)
\* C18: when a row has both a nonzero debit and a nonzero credit, classify
\* takes the debit branch only: its outcome is exactly that of the same row
\* with the credit absent, a returned transaction has the amounts -debit
\* and +debit with the counterparty from the lookup or the unknown-expense
\* account, and the credit and the "statement credit" / "payment thank
\* you" rules have no influence.
C18_DebitBranchOnly ==
    (out.op = "classify" /\ truthyDec(out.row.debit) /\ truthyDec(out.row.credit)) =>
        LET r == ledger_transaction([out.row EXCEPT !.credit = NoDecimal], out.pre) IN
        /\ out.err = r.err
        /\ out.t = r.t
        /\ _db = r.cache
        /\ out.err = "ok" =>
              out.t.entries =
                TwoEntries(Resolved(TableUsed, out.row.description), out.row.debit.val)

\* A row with a debit, a different credit and "statement credit" in its
\* description was classified into a transaction.
C18_Witness ==
    /\ out.op = "classify" /\ out.err = "ok"
    /\ truthyDec(out.row.debit) /\ truthyDec(out.row.credit)
    /\ out.row.debit.val # out.row.credit.val
    /\ HasPhrase(out.row.description, "statement credit")
    /\ \A x \in out.t.entries : x.account # points_account

(***************************************************************************)
(* Claims about rows without an amount (SpecStatement).                    *)
(***************************************************************************)
\* The row has neither a debit nor a credit, or a zero for each one it has.
Amountless(row) == ~truthyDec(row.debit) /\ ~truthyDec(row.credit)

\* C19: classifying a row that has neither a debit nor a credit, or whose
\* only present amount is zero, never returns a transaction: it raises, no
\* empty or one-entry transaction is produced, and inside
\* ledger_transactions the error reaches the caller, the row is not passed
\* over.
C19_AmountlessRowRaises ==
    /\ \A row \in stmt : Amountless(row) =>
          LET r == ledger_transaction(row, _db) IN r.err # "ok" /\ r.t = NoT
    /\ \A i \in 1..Len(gen.emitted) :
          /\ Cardinality(gen.emitted[i].entries) = 2
          /\ \E row \in stmt :
                /\ ~Amountless(row)
                /\ row.post_date = gen.emitted[i].post_date
                /\ row.description = gen.emitted[i].description
    /\ gen.pc = "running" => Len(gen.emitted) + Len(gen.queue) = Cardinality(stmt)
    /\ gen.pc = "done" =>
          /\ \A row \in stmt : ~Amountless(row)
          /\ Len(gen.emitted) = Cardinality(stmt)
    /\ (gen.pc = "error" /\ gen.err = "UnboundLocalError") =>
          /\ \E row \in stmt : Amountless(row)
          /\ Len(gen.emitted) < Cardinality(stmt)

\* The generator yielded a transaction and then raised on a row whose debit
\* is zero, in a statement that has no row without both amounts.
C19_Witness ==
    /\ gen.pc = "error" /\ gen.err = "UnboundLocalError"
    /\ Len(gen.emitted) >= 1
    /\ \E row \in stmt : row.debit.present /\ row.debit.val = 0
    /\ \A row \in stmt : row.debit.present \/ row.credit.present

(***************************************************************************)
(* Claims about the shared lookup table under threads (SpecThreads).       *)
(***************************************************************************)
Compiles(rows) == \A k \in 1..Len(rows) : rows[k].pattern # BadPattern

\* The complete tables: the bundled one, and every CSV that loads.
CompleteTables == {Bundled} \cup {rows \in ReloadRows : Compiles(rows)}

\* The thread holds the tuple its lookup resolves against.
HoldsTable(i) ==
    th[i].description # <<>> /\ th[i].pc \in {"scan", "done"} /\ th[i].err # "AssertionError"

\* No lookup resolves against a partly built table, and none is ever cached.
C13_NeverPartial ==
    /\ _db.loaded => _db.rules \in CompleteTables
    /\ \A i \in Threads : HoldsTable(i) => th[i].table \in CompleteTables

\* A reload that failed partway has stored nothing.
C13_FailedReloadStoresNothing ==
    \A i \in Threads : th[i].pc = "failed" => ~th[i].wrote /\ th[i].acc # th[i].rows

\* A lookup that began after a reload had completed resolves against the
\* table of that reload or of a later one.
C13_LaterLookupsUseNewTable ==
    \A i \in Threads : (HoldsTable(i) /\ th[i].epoch >= 1) =>
        \E k \in th[i].epoch .. Len(hist.reloads) : th[i].table = hist.reloads[k]

\* C13: reloading the lookup table is an atomic wholesale replacement:
\* every lookup, one in flight during a reload included, resolves against a
\* complete table, never a partly built one; after a reload has completed
\* every later lookup uses the new table; and a reload that fails partway
\* leaves the cached table in place.
C13_AtomicReload ==
    /\ C13_NeverPartial
    /\ C13_LaterLookupsUseNewTable
    /\ C13_FailedReloadStoresNothing

\* C14: lazy initialization of the shared table is at-most-once under every
\* interleaving of first-time lookups and reloads: the bundled dataset is
\* loaded at most once, only while no table is cached, and never over a
\* table that a reload has installed.
C14_LazyInitOnce ==
    /\ Len(hist.lazy) <= 1
    /\ \A k \in 1..Len(hist.lazy) : ~hist.lazy[k].pre.loaded
    /\ \A k \in 1..Len(hist.lazy) : hist.lazy[k].owner # "reload"

\* The bundled dataset was stored over a table that a reload had installed.
C14_LazyOverReload ==
    \E k \in 1..Len(hist.lazy) : hist.lazy[k].owner = "reload"
====
